---------------------------- MODULE Spec2Model ----------------------------
(***************************************************************************)
(* Model of the alfred-webbutton action registry (command.py, filter.py,   *)
(* common.py).  Strings are sequences of one-character strings, so that    *)
(* URL normalisation, host extraction, cookie parsing and URL encoding are *)
(* computed the way the code computes them.  The persisted registry is the *)
(* value stored under the key 'web_buttons'; every command is one action   *)
(* that loads it, runs the handler and (possibly) writes it back.          *)
(*                                                                         *)
(* Four specifications share the module:                                   *)
(*   Spec      the commands of command.py, one at a time;                  *)
(*   SpecList  the listing of filter.py (show_buttons);                    *)
(*   SpecProcs two command.py processes whose loads and saves interleave;  *)
(*   SpecIcons the favicon cache of filter.py (fetch_favicon).             *)
(* A specification leaves the variables of the others at their initial     *)
(* values.                                                                 *)
(***************************************************************************)
EXTENDS Integers, Sequences, FiniteSets, TLC

VARIABLES store, now, last, net,   \* the registry and the last command
          items,                    \* the items the script filter emitted
          procs,                    \* the concurrent processes' positions
          cache, fav, clock         \* the favicon cache, the call, the time

listVars == <<items>>
procVars == <<procs>>
iconVars == <<cache, fav, clock>>
vars == <<store, now, last, net, items, procs, cache, fav, clock>>

(***************************************************************************)
(* Bounds.                                                                 *)
(***************************************************************************)
\* Commands are issued at clock ticks 1 .. MaxNow - 1 (one command per tick).
MaxNow == 4

(***************************************************************************)
(* String primitives (Python str methods used by the code).                *)
(***************************************************************************)
\* str.startswith
StartsWith(s, p) == Len(s) >= Len(p) /\ SubSeq(s, 1, Len(p)) = p

\* s[i:] with a 1-based first index
Drop(s, i) == SubSeq(s, i, Len(s))

\* str.find for a substring: the first 1-based index at which sub occurs in
\* s, or 0 when it does not occur
Find(s, sub) ==
    LET hits == {i \in 1..(Len(s) - Len(sub) + 1) : SubSeq(s, i, i + Len(sub) - 1) = sub}
    IN  IF hits = {} THEN 0 ELSE CHOOSE i \in hits : \A j \in hits : i <= j

\* str.replace(old, new): every non-overlapping occurrence, left to right
RECURSIVE Replace(_, _, _)
Replace(s, old, new) ==
    LET i == Find(s, old)
    IN  IF i = 0 THEN s
        ELSE SubSeq(s, 1, i - 1) \o new \o Replace(Drop(s, i + Len(old)), old, new)

\* str.split(sep) for a one-character separator
RECURSIVE Split(_, _)
Split(s, sep) ==
    LET i == Find(s, <<sep>>)
    IN  IF i = 0 THEN <<s>>
        ELSE <<SubSeq(s, 1, i - 1)>> \o Split(Drop(s, i + 1), sep)

\* str.split(sep, 1): at most one split, on the first occurrence
SplitFirst(s, sep) ==
    LET i == Find(s, <<sep>>)
    IN  IF i = 0 THEN <<s>>
        ELSE <<SubSeq(s, 1, i - 1), Drop(s, i + 1)>>

\* str.strip(): leading and trailing blanks removed
RECURSIVE Strip(_)
Strip(s) ==
    IF s = <<>> THEN s
    ELSE IF Head(s) = " " THEN Strip(Tail(s))
    ELSE IF s[Len(s)] = " " THEN Strip(SubSeq(s, 1, Len(s) - 1))
    ELSE s

\* ' '.join(parts)
RECURSIVE Join(_)
Join(parts) ==
    IF parts = <<>> THEN <<>>
    ELSE IF Len(parts) = 1 THEN parts[1]
    ELSE parts[1] \o <<" ">> \o Join(Tail(parts))

\* str.lower() on the characters the inputs use
LowerChar(c) ==
    CASE c = "B" -> "b"
      [] c = "Q" -> "q"
      [] OTHER -> c

Lower(s) == [i \in 1..Len(s) |-> LowerChar(s[i])]

(***************************************************************************)
(* urllib.parse: urlparse and urlencode.                                   *)
(***************************************************************************)
SchemeChars ==
    {"a","b","c","d","e","f","g","h","i","j","k","l","m","n","o","p","q","r",
     "s","t","u","v","w","x","y","z","0","1","2","3","4","5","6","7","8","9",
     "+","-","."}

Letters ==
    {"a","b","c","d","e","f","g","h","i","j","k","l","m","n","o","p","q","r",
     "s","t","u","v","w","x","y","z"}

\* The first index of s holding one of the characters in cs, or Len(s) + 1
FirstOf(s, cs) ==
    LET hits == {i \in 1..Len(s) : s[i] \in cs}
    IN  IF hits = {} THEN Len(s) + 1 ELSE CHOOSE i \in hits : \A j \in hits : i <= j

\* urlparse(url): scheme, netloc, the query and the fragment, as urlsplit
\* computes them (scheme up to the first ':', netloc after '//' up to the
\* first of '/', '?', '#', then the fragment after '#', then the query
\* after '?')
urlparse(url) ==
    LET i == Find(url, <<":">>)
        hasScheme == /\ i > 1
                     /\ url[1] \in Letters
                     /\ \A k \in 1..(i - 1) : url[k] \in SchemeChars
        scheme == IF hasScheme THEN SubSeq(url, 1, i - 1) ELSE <<>>
        rest1 == IF hasScheme THEN Drop(url, i + 1) ELSE url
        hasNetloc == StartsWith(rest1, <<"/", "/">>)
        afterSl == Drop(rest1, 3)
        endNet == FirstOf(afterSl, {"/", "?", "#"})
        netloc == IF hasNetloc THEN SubSeq(afterSl, 1, endNet - 1) ELSE <<>>
        rest2 == IF hasNetloc THEN Drop(afterSl, endNet) ELSE rest1
        h == Find(rest2, <<"#">>)
        fragment == IF h = 0 THEN <<>> ELSE Drop(rest2, h + 1)
        rest3 == IF h = 0 THEN rest2 ELSE SubSeq(rest2, 1, h - 1)
        q == Find(rest3, <<"?">>)
        query == IF q = 0 THEN <<>> ELSE Drop(rest3, q + 1)
        path == IF q = 0 THEN rest3 ELSE SubSeq(rest3, 1, q - 1)
    IN  [scheme |-> scheme, netloc |-> netloc, path |-> path,
         query |-> query, fragment |-> fragment]

\* quote_plus on one character: unreserved characters stay, a blank becomes
\* '+', anything else is percent-encoded
QuoteChar(c) ==
    CASE c \in (SchemeChars \ {"+"}) \cup {"_", "~", "B", "Q"} -> <<c>>
      [] c = " " -> <<"+">>
      [] c = "=" -> <<"%", "3", "D">>
      [] c = "+" -> <<"%", "2", "B">>
      [] c = "/" -> <<"%", "2", "F">>
      [] c = "?" -> <<"%", "3", "F">>
      [] c = "&" -> <<"%", "2", "6">>
      [] c = "#" -> <<"%", "2", "3">>
      [] c = ":" -> <<"%", "3", "A">>
      [] c = "{" -> <<"%", "7", "B">>
      [] c = "}" -> <<"%", "7", "D">>
      [] OTHER -> <<c>>

RECURSIVE quote_plus(_)
quote_plus(s) ==
    IF s = <<>> THEN <<>> ELSE QuoteChar(Head(s)) \o quote_plus(Tail(s))

\* urlencode(d) for a dict d, kept as the sequence of its <<key, value>>
\* items in insertion order: key=value pairs joined by '&'
RECURSIVE urlencode(_)
urlencode(d) ==
    IF d = <<>> THEN <<>>
    ELSE LET kv == quote_plus(d[1][1]) \o <<"=">> \o quote_plus(d[1][2])
         IN  IF Len(d) = 1 THEN kv ELSE kv \o <<"&">> \o urlencode(Tail(d))

(***************************************************************************)
(* Python dict, kept as the sequence of its items in insertion order.      *)
(***************************************************************************)
\* The position of key k in dict d, or 0
KeyIndex(d, k) ==
    LET hits == {i \in 1..Len(d) : d[i][1] = k}
    IN  IF hits = {} THEN 0 ELSE CHOOSE i \in hits : TRUE

\* d[k] = v: an existing key keeps its position, a new key is appended
DictSet(d, k, v) ==
    IF KeyIndex(d, k) = 0 THEN Append(d, <<k, v>>)
    ELSE [d EXCEPT ![KeyIndex(d, k)] = <<k, v>>]

\* button[k] = v on a button record whose key k may be absent
SetKey(b, k, v) == [x \in (DOMAIN b) \cup {k} |-> IF x = k THEN v ELSE b[x]]


(***************************************************************************)
(* Python None / a value.                                                  *)
(***************************************************************************)
None == [some |-> FALSE, data |-> <<>>]
Some(x) == [some |-> TRUE, data |-> x]

(***************************************************************************)
(* common.py: the key-value store.  store is the document kept under the   *)
(* key 'web_buttons' (None: nothing stored or the storage is unreadable).  *)
(* A read yields that document; a write either replaces it or, when        *)
(* wf.store_data raises, leaves it as it was.  A stored document does not  *)
(* become unreadable between two commands.                                 *)
(***************************************************************************)
\* get_stored_data(wf, key): the stored value, None when there is none or
\* reading raises
get_stored_data(st) == st

\* Mutant of save_stored_data: a value already stored is not replaced
save_stored_data_create_only(st, data, writeOk) ==
    [store |-> IF writeOk /\ ~st.some THEN Some(data) ELSE st, ret |-> writeOk]

\* save_stored_data(wf, key, data): the new stored document and the value
\* returned; writeOk is whether wf.store_data returns without raising
save_stored_data(st, data, writeOk) ==
    [store |-> IF writeOk THEN Some(data) ELSE st, ret |-> writeOk]

(***************************************************************************)
(* command.py                                                              *)
(***************************************************************************)
S_http == <<"h","t","t","p",":","/","/">>
S_https == <<"h","t","t","p","s",":","/","/">>
S_www == <<"w","w","w",".">>
S_GET == <<"G","E","T">>
S_POST == <<"P","O","S","T">>
S_browser == <<"b","r","o","w","s","e","r">>
S_quiet == <<"q","u","i","e","t">>

\* load_web_buttons(): get_stored_data(wf, 'web_buttons') or []
load_web_buttons(st) ==
    LET d == get_stored_data(st)
    IN  IF d.some /\ d.data # <<>> THEN d.data ELSE <<>>

\* save_web_buttons(buttons): the stored document afterwards; the value
\* save_stored_data returns is dropped
save_web_buttons(st, buttons, writeOk) == save_stored_data(st, buttons, writeOk).store

\* get_button_name_from_url(url)
get_button_name_from_url(url) == Replace(urlparse(url).netloc, S_www, <<>>)

\* normalize_url(url)
normalize_url(url) ==
    IF StartsWith(url, S_http) \/ StartsWith(url, S_https) THEN url
    ELSE S_https \o url

\* next((b for b in buttons if b['name'] == name), None), as the index of
\* the first such button, 0 for None
find_button(buttons, name) ==
    LET hits == {i \in 1..Len(buttons) : buttons[i].name = name}
    IN  IF hits = {} THEN 0 ELSE CHOOSE i \in hits : \A j \in hits : i <= j

\* Mutant of name_exists: the check compares the url instead of the name
name_exists_url(buttons, name) == \E i \in 1..Len(buttons) : buttons[i].url = name

\* any(b['name'] == name for b in buttons)
name_exists(buttons, name) == \E i \in 1..Len(buttons) : buttons[i].name = name

\* button.get(k, default)
Get(b, k, default) == IF k \in DOMAIN b THEN b[k] ELSE default

\* button.get(k): the value or None
GetOpt(b, k) == IF k \in DOMAIN b THEN Some(b[k]) ELSE None

\* get_mode(button_name): loads the registry again
get_mode(st, button_name) ==
    LET buttons == load_web_buttons(st)
        i == find_button(buttons, button_name)
    IN  IF i = 0 THEN S_browser ELSE Get(buttons[i], "mode", S_browser)

\* What a handler leaves behind: its exit code, whether it called
\* save_web_buttons, and the list it holds (and saves, if it saves)
Result(rc, save, buttons) == [rc |-> rc, save |-> save, buttons |-> buttons]

\* set_mode(args), on the loaded list
set_mode(buttons, args) ==
    IF Len(args) < 2 THEN Result(1, FALSE, buttons)
    ELSE LET button_name == args[1]
             mode == Lower(args[2])
             i == find_button(buttons, button_name)
         IN  IF mode \notin {S_browser, S_quiet} THEN Result(1, FALSE, buttons)
             ELSE IF i = 0 THEN Result(1, FALSE, buttons)
             ELSE Result(0, TRUE, [buttons EXCEPT ![i] = SetKey(@, "mode", mode)])

\* add_body(args), on the loaded list
add_body(buttons, args) ==
    IF Len(args) < 2 THEN Result(1, FALSE, buttons)
    ELSE LET name == args[1]
             body == Join(Tail(args))
             i == find_button(buttons, name)
         IN  IF i = 0 THEN Result(1, FALSE, buttons)
             ELSE Result(0, TRUE,
                    [buttons EXCEPT ![i] = SetKey(SetKey(@, "body", body), "method", S_POST)])

\* The dict add_button creates
new_button(name, url) ==
    [name |-> name, url |-> url, headers |-> <<>>, cookies |-> <<>>,
     mode |-> S_browser, method |-> S_GET]

\* Mutant of add_button: the name is not looked up before the append
add_button_unchecked(buttons, args) ==
    IF Len(args) < 1 THEN Result(1, FALSE, buttons)
    ELSE LET url == normalize_url(args[1])
             name == IF Len(args) > 1 THEN args[2] ELSE get_button_name_from_url(url)
         IN  Result(0, TRUE, Append(buttons, new_button(name, url)))

\* add_button(args), on the loaded list
add_button(buttons, args) ==
    IF Len(args) < 1 THEN Result(1, FALSE, buttons)
    ELSE LET url == normalize_url(args[1])
             name == IF Len(args) > 1 THEN args[2] ELSE get_button_name_from_url(url)
         IN  IF name_exists(buttons, name) THEN Result(1, FALSE, buttons)
             ELSE Result(0, TRUE, Append(buttons, new_button(name, url)))

\* add_header(args), on the loaded list
add_header(buttons, args) ==
    IF Len(args) < 3 THEN Result(1, FALSE, buttons)
    ELSE LET name == args[1]
             header_name == args[2]
             header_value == Join(Tail(Tail(args)))
             i == find_button(buttons, name)
         IN  IF i = 0 THEN Result(1, FALSE, buttons)
             ELSE LET headers == Get(buttons[i], "headers", <<>>)
                  IN  Result(0, TRUE,
                        [buttons EXCEPT ![i] =
                            SetKey(@, "headers", DictSet(headers, header_name, header_value))])

\* The loop of add_cookie over the stripped segments: the cookies dict
\* afterwards and the success flag
RECURSIVE process_cookies(_, _, _)
process_cookies(dict, cookies, success) ==
    IF cookies = <<>> THEN [dict |-> dict, success |-> success]
    ELSE LET cookie_parts == SplitFirst(Head(cookies), "=")
         IN  IF Len(cookie_parts) # 2
             THEN process_cookies(dict, Tail(cookies), FALSE)
             ELSE process_cookies(
                    DictSet(dict, Strip(cookie_parts[1]), Strip(cookie_parts[2])),
                    Tail(cookies), success)

\* Mutant of cookie_result: the list is saved before the success flag is read
cookie_result_saves(success, buttons) ==
    IF success THEN Result(0, TRUE, buttons) ELSE Result(1, TRUE, buttons)

\* The end of add_cookie: save and return 0 only when every segment parsed
cookie_result(success, buttons) ==
    IF success THEN Result(0, TRUE, buttons) ELSE Result(1, FALSE, buttons)

\* add_cookie(args), on the loaded list
add_cookie(buttons, args) ==
    IF Len(args) < 2 THEN Result(1, FALSE, buttons)
    ELSE LET name == args[1]
             cookie_str == Join(Tail(args))
             parts == Split(cookie_str, ";")
             cookies == [k \in 1..Len(parts) |-> Strip(parts[k])]
             i == find_button(buttons, name)
         IN  IF i = 0 THEN Result(1, FALSE, buttons)
             ELSE LET p == process_cookies(Get(buttons[i], "cookies", <<>>), cookies, TRUE)
                  IN  cookie_result(p.success,
                        [buttons EXCEPT ![i] = SetKey(@, "cookies", p.dict)])

\* [b for b in buttons if b['name'] != name]
RECURSIVE without_name(_, _)
without_name(buttons, name) ==
    IF buttons = <<>> THEN <<>>
    ELSE IF Head(buttons).name # name
         THEN <<Head(buttons)>> \o without_name(Tail(buttons), name)
         ELSE without_name(Tail(buttons), name)

\* remove_button(args), on the loaded list
remove_button(buttons, args) ==
    IF Len(args) < 1 THEN Result(1, FALSE, buttons)
    ELSE LET name == args[1]
         IN  IF ~name_exists(buttons, name) THEN Result(1, FALSE, buttons)
             ELSE Result(0, TRUE, without_name(buttons, name))


\* Python truthiness of an optional dict or string: None and the empty
\* value are false
Truthy(o) == o.some /\ o.data # <<>>

\* Mutant of request_url: the existing query string is not looked at
request_url_any(url, cookies, method) ==
    IF Truthy(cookies) /\ method = S_GET
    THEN url \o <<"?">> \o urlencode(cookies.data)
    ELSE url

\* open_url, first step: the URL the request goes to (cookies become the
\* query string of a GET whose URL has none)
request_url(url, cookies, method) ==
    IF Truthy(cookies) /\ method = S_GET /\ urlparse(url).query = <<>>
    THEN url \o <<"?">> \o urlencode(cookies.data)
    ELSE url

\* open_url, second step: the call made on workflow.web
http_request(url, headers, method, body) ==
    IF method = S_POST
    THEN [call |-> "post", url |-> url, headers |-> headers, data |-> body]
    ELSE IF Truthy(headers)
    THEN [call |-> "get", url |-> url, headers |-> headers, data |-> None]
    ELSE [call |-> "get", url |-> url, headers |-> None, data |-> None]

\* Mutant of browser_launches: the mode is not looked at
browser_launches_always(mode, url) == <<url>>

\* open_url, after raise_for_status: the URLs handed to webbrowser.open
browser_launches(mode, url) == IF mode = S_browser THEN <<url>> ELSE <<>>

\* open_url(url, headers, cookies, button_name, method, body).  http is the
\* outcome of the request: "ok", "status" (raise_for_status raises) or
\* "neterror" (the request raises); st is the stored document get_mode
\* reads.  Yields the value returned, the requests made and the URLs opened
\* in the browser.
open_url(url, headers, cookies, button_name, method, body, http, st) ==
    LET target == request_url(url, cookies, method)
        req == http_request(target, headers, method, body)
    IN  IF http # "ok"
        THEN [ok |-> FALSE, requests |-> <<req>>, opened |-> <<>>]
        ELSE LET mode == IF Truthy(button_name)
                         THEN get_mode(st, button_name.data)
                         ELSE S_browser
             IN  [ok |-> TRUE, requests |-> <<req>>,
                  opened |-> browser_launches(mode, target)]

NoEffects == [ok |-> FALSE, requests |-> <<>>, opened |-> <<>>]

\* open_button(args): the exit code and the effects of open_url
open_button(st, args, http) ==
    IF Len(args) < 1 THEN [rc |-> 1, eff |-> NoEffects]
    ELSE LET name == args[1]
             buttons == load_web_buttons(st)
             i == find_button(buttons, name)
         IN  IF i = 0 THEN [rc |-> 1, eff |-> NoEffects]
             ELSE LET button == buttons[i]
                      eff == open_url(button.url, GetOpt(button, "headers"),
                                      GetOpt(button, "cookies"), Some(name),
                                      Get(button, "method", S_GET),
                                      GetOpt(button, "body"), http, st)
                  IN  [rc |-> IF eff.ok THEN 0 ELSE 1, eff |-> eff]

\* open_direct_url(args)
open_direct_url(st, args, http) ==
    IF Len(args) < 1 THEN [rc |-> 1, eff |-> NoEffects]
    ELSE LET url == normalize_url(args[1])
             eff == open_url(url, None, None, None, S_GET, None, http, st)
         IN  [rc |-> IF eff.ok THEN 0 ELSE 1, eff |-> eff]

(***************************************************************************)
(* filter.py                                                               *)
(***************************************************************************)
\* Mutant of filter_load_web_buttons: the last_used default is not filled in
filter_load_no_default(st) ==
    LET d == get_stored_data(st)
    IN  IF d.some THEN d.data ELSE <<>>

\* filter.py load_web_buttons(): every button gets a last_used field
filter_load_web_buttons(st) ==
    LET d == get_stored_data(st)
        buttons == IF d.some THEN d.data ELSE <<>>
    IN  [i \in 1..Len(buttons) |->
            IF "last_used" \in DOMAIN buttons[i] THEN buttons[i]
            ELSE SetKey(buttons[i], "last_used", 0)]

\* update_button_usage(wf, button_name) at time t: the stored document
\* afterwards.  Nothing in command.py or filter.py calls it, so no action of
\* the state machine uses it.
update_button_usage(st, button_name, t, writeOk) ==
    LET buttons == filter_load_web_buttons(st)
        i == find_button(buttons, button_name)
    IN  IF i = 0 THEN st
        ELSE save_stored_data(st, [buttons EXCEPT ![i] = SetKey(@, "last_used", t)],
                              writeOk).store

(***************************************************************************)
(* Inputs: the argument lists the commands are run with.                   *)
(***************************************************************************)
\* URLs given to add and open_url
U_plain == <<"a",".","i","o">>
U_www == <<"h","t","t","p","s",":","/","/","w","w","w",".","a",".","i","o","/","p">>
U_mid == <<"h","t","t","p",":","/","/","b",".","w","w","w",".","c","?","q","=","1">>
Urls == {U_plain, U_www, U_mid}

\* Button names given to the commands
N_a == <<"a",".","i","o">>
N_x == <<"x">>
GivenNames == {N_a, N_x}
ArgNames == {N_a, N_x}

\* Cookie strings, as the tokens after the name
CK_two == << <<"a","=","1",";">>, <<"b","=","2">> >>
CK_bad == << <<"a","=","3",";">>, <<"b","a","d",";">>, <<"b","=","4">> >>
CK_trim == << <<"a">>, <<"=">>, <<"5","=","6">> >>
CK_dup == << <<"a","=","7",";","a","=","8">> >>
CookieArgs == {CK_two, CK_bad, CK_trim, CK_dup}

\* Bodies, as the tokens after the name
BodyArgs == { << <<"p">>, <<"q">> >> }

\* Header name and value tokens
HeaderArgs == { << <<"H">>, <<"v">>, <<"w">> >> }

\* Mode tokens
ModeTokens == {S_browser, <<"Q","u","i","e","t">>, <<"l","o","u","d">>}

\* Outcomes of the HTTP request
HttpOutcomes == {"ok", "status", "neterror"}

AddArgs == {<<>>} \cup {<<u>> : u \in Urls} \cup {<<u, n>> : u \in Urls, n \in GivenNames}
AdhArgs == {<<n>> : n \in ArgNames} \cup {<<n>> \o h : n \in ArgNames, h \in HeaderArgs}
AdcArgs == {<<n>> : n \in ArgNames} \cup {<<n>> \o c : n \in ArgNames, c \in CookieArgs}
AdbArgs == {<<n>> : n \in ArgNames} \cup {<<n>> \o b : n \in ArgNames, b \in BodyArgs}
RemoveArgs == {<<>>} \cup {<<n>> : n \in ArgNames}
ModeArgs == {<<n>> : n \in ArgNames} \cup {<<n, m>> : n \in ArgNames, m \in ModeTokens}
OpenArgs == {<<>>} \cup {<<n>> : n \in ArgNames}
OpenUrlArgs == {<<>>} \cup {<<u>> : u \in Urls}

(***************************************************************************)
(* The state machine: one command per step.                                *)
(***************************************************************************)
\* The registry a session starts from: nothing stored yet, or the registry
\* left by the earlier commands  add a.io x  and  adc x a=1; b=2
SeedRegistry ==
    add_cookie(add_button(<<>>, <<U_plain, N_x>>).buttons, <<N_x>> \o CK_two).buttons

InitStores == {None, Some(SeedRegistry)}

Init ==
    /\ store \in InitStores
    /\ now = 1
    /\ last = [cmd |-> "none", args |-> <<>>, rc |-> 0, saved |-> "none", http |-> "none"]
    /\ net = NoEffects
    /\ items = <<>> /\ procs = <<>>
    /\ cache = <<>> /\ fav = <<>> /\ clock = 0

\* A mutating command: the handler's result r on the loaded list is saved if
\* the handler saves; writeOk is whether the write goes through
Mutate(cmd, args, r) ==
    /\ now < MaxNow
    /\ now' = now + 1
    /\ \E writeOk \in (IF r.save THEN BOOLEAN ELSE {TRUE}) :
        /\ store' = IF r.save THEN save_web_buttons(store, r.buttons, writeOk) ELSE store
        /\ last' = [cmd |-> cmd, args |-> args, rc |-> r.rc,
                    saved |-> IF ~r.save THEN "none" ELSE IF writeOk THEN "ok" ELSE "failed",
                    http |-> "none"]
    /\ net' = NoEffects
    /\ UNCHANGED <<listVars, procVars, iconVars>>

\* An invoking command: the registry is only read
Invoke(cmd, args, r, http) ==
    /\ now < MaxNow
    /\ now' = now + 1
    /\ store' = store
    /\ last' = [cmd |-> cmd, args |-> args, rc |-> r.rc, saved |-> "none",
                http |-> IF r.eff.requests = <<>> THEN "none" ELSE http]
    /\ net' = r.eff
    /\ UNCHANGED <<listVars, procVars, iconVars>>

Add == \E args \in AddArgs :
    Mutate("add", args, add_button(load_web_buttons(store), args))

Adh == \E args \in AdhArgs :
    Mutate("adh", args, add_header(load_web_buttons(store), args))

Adc == \E args \in AdcArgs :
    Mutate("adc", args, add_cookie(load_web_buttons(store), args))

Adb == \E args \in AdbArgs :
    Mutate("adb", args, add_body(load_web_buttons(store), args))

Remove == \E args \in RemoveArgs :
    Mutate("remove", args, remove_button(load_web_buttons(store), args))

Mode == \E args \in ModeArgs :
    Mutate("mode", args, set_mode(load_web_buttons(store), args))

Open == \E args \in OpenArgs, http \in HttpOutcomes :
    Invoke("open", args, open_button(store, args, http), http)

OpenUrl == \E args \in OpenUrlArgs, http \in HttpOutcomes :
    Invoke("open_url", args, open_direct_url(store, args, http), http)

\* main(): any other command token
Unknown ==
    Mutate("list", <<>>, Result(1, FALSE, load_web_buttons(store)))

Next == Add \/ Adh \/ Adc \/ Adb \/ Remove \/ Mode \/ Open \/ OpenUrl \/ Unknown

Spec == Init /\ [][Next]_vars


(***************************************************************************)
(* Properties.                                                             *)
(***************************************************************************)
\* The registry the commands see
Registry == load_web_buttons(store)

UniqueNames(buttons) ==
    \A i, j \in 1..Len(buttons) : i # j => buttons[i].name # buttons[j].name

\* The name an add with these arguments asks for
AddName(args) ==
    IF Len(args) > 1 THEN args[2] ELSE get_button_name_from_url(normalize_url(args[1]))

\* dict lookup, None when the key is absent
Lookup(d, k) == IF KeyIndex(d, k) = 0 THEN None ELSE Some(d[KeyIndex(d, k)][2])

\* C1: no two actions of the persisted registry share a name, and an add
\* whose name is already taken exits with 1 and leaves the persisted
\* registry as it was.
C1_UniqueNames ==
    /\ [](UniqueNames(Registry))
    /\ [][(/\ last'.cmd = "add"
           /\ Len(last'.args) >= 1
           /\ \E i \in 1..Len(Registry) : Registry[i].name = AddName(last'.args))
          => (last'.rc = 1 /\ store' = store)]_vars

\* C1 witness: an add was refused for a name already in a non-empty registry
C1_Witness ==
    /\ last.cmd = "add"
    /\ Len(last.args) >= 1
    /\ last.rc = 1
    /\ \E i \in 1..Len(Registry) : Registry[i].name = AddName(last.args)

\* The stripped segments of the cookie string of an adc
AdcSegments(args) ==
    LET parts == Split(Join(Tail(args)), ";")
    IN  [k \in 1..Len(parts) |-> Strip(parts[k])]

HasEq(seg) == \E k \in 1..Len(seg) : seg[k] = "="

\* The cookies of the action called name in a list of buttons
CookiesOf(buttons, name) == buttons[find_button(buttons, name)].cookies

\* C2: adc on an existing action is all-or-nothing: with a segment lacking
\* '=' it exits with 1 and the stored cookies stay as they were; with every
\* segment holding '=' it exits with 0 and every segment's trimmed key maps
\* to its trimmed value in the stored cookies, the other stored keys kept.
C2_CookieAtomicity ==
    [][(/\ last'.cmd = "adc"
        /\ Len(last'.args) >= 2
        /\ find_button(Registry, last'.args[1]) # 0)
       => LET name == last'.args[1]
              segs == AdcSegments(last'.args)
              old == CookiesOf(Registry, name)
              new == CookiesOf(load_web_buttons(store'), name)
              keys == {Strip(SplitFirst(segs[k], "=")[1]) : k \in 1..Len(segs)}
          IN  IF \E k \in 1..Len(segs) : ~HasEq(segs[k])
              THEN last'.rc = 1 /\ new = old
              ELSE /\ last'.rc = 0
                   /\ \A k \in 1..Len(segs) :
                        Lookup(new, Strip(SplitFirst(segs[k], "=")[1]))
                            = Some(Strip(SplitFirst(segs[k], "=")[2]))
                   /\ \A j \in 1..Len(old) :
                        old[j][1] \notin keys => Lookup(new, old[j][1]) = Some(old[j][2])]_vars

\* C3: after an open that exits with 0, the persisted action's last_used is
\* the time of that command.
C3_LastUsedUpdated ==
    (last.cmd = "open" /\ last.rc = 0)
        => LET b == Registry[find_button(Registry, last.args[1])]
           IN  "last_used" \in DOMAIN b /\ b.last_used = now - 1

\* C4: a mutating command whose write to the store fails does not exit with 0.
C4_SaveFailureReported ==
    last.saved = "failed" => last.rc = 1

\* C5: a command that exits with 1 leaves the persisted registry exactly as
\* it was.
C5_FailureLeavesRegistry ==
    [][last'.rc = 1 => store' = store]_vars

\* C5 witness: an adc with a malformed segment between two well-formed ones
\* was refused on an existing action
C5_Witness ==
    /\ last.cmd = "adc"
    /\ Len(last.args) >= 2
    /\ last.rc = 1
    /\ find_button(Registry, last.args[1]) # 0
    /\ \E k \in 1..Len(AdcSegments(last.args)) : HasEq(AdcSegments(last.args)[k])


\* C6: an action has a body only if its method is POST, and after an adb
\* that exits with 0 the action's method is POST and its body is the body
\* given.
C6_BodyImpliesPost ==
    /\ \A i \in 1..Len(Registry) :
          "body" \in DOMAIN Registry[i] => Registry[i].method = S_POST
    /\ (last.cmd = "adb" /\ last.rc = 0)
          => LET i == find_button(Registry, last.args[1])
             IN  /\ i # 0
                 /\ "body" \in DOMAIN Registry[i]
                 /\ Registry[i].body = Join(Tail(last.args))
                 /\ Registry[i].method = S_POST

\* The URL host with only a leading 'www.' removed
HostWithoutLeadingWww(url) ==
    LET host == urlparse(url).netloc
    IN  IF StartsWith(host, S_www) THEN Drop(host, Len(S_www) + 1) ELSE host

\* C7: an add that exits with 0 (and whose write went through) appends
\* exactly one action: its url is the input, with https:// put in front
\* unless it starts with http:// or https://, its name is the name given
\* or else the URL host with only a leading 'www.' removed, its method is
\* GET, its mode browser, its headers and cookies empty; the actions stored
\* before are unchanged and keep their order.
C7_AddAppendsDefaults ==
    [][(last'.cmd = "add" /\ last'.rc = 0 /\ last'.saved = "ok")
       => LET old == Registry
              new == load_web_buttons(store')
              given == last'.args[1]
              url == IF StartsWith(given, S_http) \/ StartsWith(given, S_https)
                     THEN given ELSE S_https \o given
              name == IF Len(last'.args) > 1 THEN last'.args[2]
                      ELSE HostWithoutLeadingWww(url)
          IN  /\ Len(new) = Len(old) + 1
              /\ SubSeq(new, 1, Len(old)) = old
              /\ new[Len(new)] = [name |-> name, url |-> url, method |-> S_GET,
                                  mode |-> S_browser, headers |-> <<>>,
                                  cookies |-> <<>>]]_vars

\* The stored mode of the action an open names, browser for open_url
InvokedMode ==
    IF last.cmd = "open"
    THEN Registry[find_button(Registry, last.args[1])].mode
    ELSE S_browser

\* C8: an invocation opens the browser exactly when the request succeeded
\* and the mode is browser, and then once; a failed request yields ok =
\* false and exit code 1; no other command opens the browser.
C8_BrowserIffSuccess ==
    /\ Len(net.opened) <= 1
    /\ last.cmd \notin {"open", "open_url"} => net.opened = <<>>
    /\ (last.cmd \in {"open", "open_url"} /\ net.requests # <<>>)
          => /\ Len(net.requests) = 1
             /\ (net.opened # <<>>) <=> (last.http = "ok" /\ InvokedMode = S_browser)
             /\ last.http # "ok" => (~net.ok /\ last.rc = 1)
             /\ last.http = "ok" => (net.ok /\ last.rc = 0)

\* C8 witness: the request of a quiet action succeeded and no browser was opened
C8_Witness ==
    /\ last.cmd = "open"
    /\ last.http = "ok"
    /\ last.rc = 0
    /\ InvokedMode = S_quiet
    /\ net.opened = <<>>

\* The action an open names
InvokedButton == Registry[find_button(Registry, last.args[1])]

\* The action's URL with its cookies appended as a query string
WithCookieQuery(b) == b.url \o <<"?">> \o urlencode(b.cookies)

\* C9: the URL requested, and opened in the browser if one is opened, is the
\* action's URL with the cookies appended as a query string exactly when the
\* method is GET, there are cookies and the URL has no query string; it is
\* the action's URL otherwise.  open_url requests the normalized URL.
C9_RequestedUrl ==
    /\ (last.cmd = "open" /\ net.requests # <<>>)
          => LET b == InvokedButton
                 expected == IF /\ b.method = S_GET
                                /\ b.cookies # <<>>
                                /\ urlparse(b.url).query = <<>>
                             THEN WithCookieQuery(b) ELSE b.url
             IN  /\ net.requests[1].url = expected
                 /\ \A k \in 1..Len(net.opened) : net.opened[k] = expected
    /\ (last.cmd = "open_url" /\ net.requests # <<>>)
          => /\ net.requests[1].url = normalize_url(last.args[1])
             /\ \A k \in 1..Len(net.opened) : net.opened[k] = net.requests[1].url

\* C9 witness: a GET action with cookies and no query string was requested
\* and opened at its URL followed by '?' and the encoded cookies
C9_Witness ==
    /\ last.cmd = "open"
    /\ net.requests # <<>>
    /\ InvokedButton.method = S_GET
    /\ InvokedButton.cookies # <<>>
    /\ net.requests[1].url = WithCookieQuery(InvokedButton)
    /\ net.opened = <<WithCookieQuery(InvokedButton)>>

\* Saving what a load routine returned: the stored document afterwards
RoundTripCommand == save_web_buttons(store, load_web_buttons(store), TRUE)
RoundTripFilter == save_web_buttons(store, filter_load_web_buttons(store), TRUE)

\* C10 as claimed: for a document a command has written, loading with either
\* load routine and saving the value back leaves the persisted document as
\* it is.
C10_RoundTripNoOp ==
    (store.some /\ last.saved = "ok")
        => (RoundTripCommand = store /\ RoundTripFilter = store)

\* C10, amended: loading with command.py's load_web_buttons and saving back
\* leaves the persisted document as it is; loading with filter.py's
\* load_web_buttons and saving back leaves it as it is except that every
\* action stored without last_used gains last_used = 0.
C10_RoundTripUpToDefault ==
    store.some =>
        /\ RoundTripCommand = store
        /\ RoundTripFilter.some
        /\ Len(RoundTripFilter.data) = Len(store.data)
        /\ \A i \in 1..Len(store.data) :
              LET old == store.data[i]
                  new == RoundTripFilter.data[i]
              IN  /\ DOMAIN new = DOMAIN old \cup {"last_used"}
                  /\ \A k \in DOMAIN old : new[k] = old[k]
                  /\ "last_used" \notin DOMAIN old => new.last_used = 0

\* C10 witness: the persisted document holds an action stored by add, which
\* has no last_used field
C10_Witness ==
    /\ store.some
    /\ last.cmd = "add"
    /\ last.saved = "ok"
    /\ \E i \in 1..Len(store.data) : "last_used" \notin DOMAIN store.data[i]

(***************************************************************************)
(* filter.py: the listing (show_buttons).                                  *)
(***************************************************************************)
\* Stored last_used values range over 0 .. MaxUsed (or the key is missing)
MaxUsed == 2

\* str.endswith
EndsWith(s, p) == Len(s) >= Len(p) /\ SubSeq(s, Len(s) - Len(p) + 1, Len(s)) = p

S_tlds == {<<".","c","o","m">>, <<".","o","r","g">>, <<".","n","e","t">>,
           <<".","e","d","u">>, <<".","g","o","v">>, <<".","i","o">>}

\* looks_like_url(text)
looks_like_url(text) ==
    LET t == Strip(Lower(text))
    IN  \/ \E p \in {S_http, S_https, S_www} : StartsWith(t, p)
        \/ \E tld \in S_tlds : EndsWith(t, tld)
        \/ (Find(t, <<".">>) # 0 /\ Find(t, <<" ">>) = 0)

\* The sort key of show_buttons: x.get('last_used', 0)
last_used_key(b) == Get(b, "last_used", 0)

\* Mutant of sort_insert: b goes in front of the buttons with an equal key
sort_insert_front(sorted, b) ==
    LET n == Cardinality({i \in 1..Len(sorted) :
                             last_used_key(sorted[i]) > last_used_key(b)})
    IN  SubSeq(sorted, 1, n) \o <<b>> \o SubSeq(sorted, n + 1, Len(sorted))

\* One step of the stable descending sort: b goes behind every button whose
\* key is greater than or equal to its own
sort_insert(sorted, b) ==
    LET n == Cardinality({i \in 1..Len(sorted) :
                             last_used_key(sorted[i]) >= last_used_key(b)})
    IN  SubSeq(sorted, 1, n) \o <<b>> \o SubSeq(sorted, n + 1, Len(sorted))

\* buttons.sort(key=lambda x: x.get('last_used', 0), reverse=True); list.sort
\* is stable, also with reverse=True
RECURSIVE sort_by_last_used(_)
sort_by_last_used(buttons) ==
    IF buttons = <<>> THEN <<>>
    ELSE sort_insert(sort_by_last_used(SubSeq(buttons, 1, Len(buttons) - 1)),
                     buttons[Len(buttons)])

S_open == <<"o","p","e","n"," ">>
S_open_url == <<"o","p","e","n","_","u","r","l"," ">>

\* The item show_buttons adds for a button; found is the set of URLs for
\* which fetch_favicon returns a path during this listing
button_item(b, found) ==
    LET headers == Get(b, "headers", <<>>)
        cookies == Get(b, "cookies", <<>>)
        parts == (IF headers # <<>> THEN <<<<Len(headers), "headers">>>> ELSE <<>>)
              \o (IF cookies # <<>> THEN <<<<Len(cookies), "cookies">>>> ELSE <<>>)
              \o (IF Get(b, "body", <<>>) # <<>> THEN <<"POST body">> ELSE <<>>)
              \o <<<<"Mode", Get(b, "mode", S_browser)>>>>
    IN  [title |-> b.name, subtitle |-> <<b.url, parts>>, arg |-> S_open \o b.name,
         valid |-> TRUE, icon |-> IF b.url \in found THEN "favicon" ELSE "ICON_WEB"]

\* show_buttons(wf, query): the items added, in order
show_buttons(st, query, found) ==
    LET buttons == sort_by_last_used(filter_load_web_buttons(st))
        all == [i \in 1..Len(buttons) |-> button_item(buttons[i], found)]
    IN  IF ~Truthy(query) THEN
            IF buttons = <<>>
            THEN << [title |-> "No web buttons found", subtitle |-> <<>>, arg |-> <<>>,
                     valid |-> FALSE, icon |-> "ICON_INFO"] >>
            ELSE all
        ELSE
            LET q == Lower(query.data)
                hit(b) == Find(Lower(b.name), q) # 0 \/ Find(Lower(b.url), q) # 0
            IN  (IF looks_like_url(query.data)
                 THEN << [title |-> <<"Open URL", query.data>>, subtitle |-> <<>>,
                          arg |-> S_open_url \o query.data, valid |-> TRUE,
                          icon |-> "ICON_WEB"] >>
                 ELSE <<>>)
                \o SelectSeq(all, LAMBDA it : \E i \in 1..Len(buttons) :
                                   buttons[i].name = it.title /\ hit(buttons[i]))

\* main(wf) of filter.py for a query that names no command: an empty or
\* blank query lists everything
filter_main(st, query, found) ==
    IF ~Truthy(query) \/ Strip(query.data) = <<>>
    THEN show_buttons(st, None, found)
    ELSE show_buttons(st, query, found)

\* The three actions a listed registry holds, in registry order
N_bc == <<"B","c">>
U_b == <<"b",".","i","o","/","q">>
ListButtons ==
    << SeedRegistry[1],
       new_button(N_a, normalize_url(U_www)),
       add_body(<<new_button(N_bc, normalize_url(U_b))>>,
                <<N_bc, <<"p">>, <<"q">>>>).buttons[1] >>

\* Stored values of last_used: missing, or a time
UsedValues == {None} \cup {Some(t) : t \in 0..MaxUsed}

\* A registry of the first n actions, with the given last_used values
ListRegistry(n, used) ==
    [i \in 1..n |-> IF used[i].some THEN SetKey(ListButtons[i], "last_used", used[i].data)
                    ELSE ListButtons[i]]

ListStores ==
    {None} \cup {Some(ListRegistry(n, used)) :
                    n \in 1..Len(ListButtons), used \in [1..Len(ListButtons) -> UsedValues]}

\* Queries typed into the script filter that name no command
ListQueries == {None, Some(<<" ">>), Some(<<"i","o">>), Some(<<"a",".","i","o">>),
                Some(<<"Q">>)}

InitList ==
    /\ store \in ListStores
    /\ items = <<>>
    /\ now = 1 /\ net = NoEffects
    /\ last = [cmd |-> "none", args |-> <<>>, rc |-> 0, saved |-> "none", http |-> "none"]
    /\ procs = <<>> /\ cache = <<>> /\ fav = <<>> /\ clock = 0

\* One run of the script filter: the registry is read, the items are emitted
Filter ==
    \E query \in ListQueries :
    \E found \in SUBSET {Registry[i].url : i \in 1..Len(Registry)} :
        /\ items' = [query |-> query, out |-> filter_main(store, query, found)]
        /\ UNCHANGED <<store, now, last, net, procVars, iconVars>>

NextList == Filter

SpecList == InitList /\ [][NextList]_vars

(***************************************************************************)
(* Properties of the listing.                                              *)
(***************************************************************************)
\* The position in the stored registry of the action an item stands for
RegistryIndex(item) ==
    CHOOSE i \in 1..Len(Registry) : Registry[i].name = item.title

\* C11: a listing with no query emits every stored action exactly once,
\* ordered by last_used descending (missing counts as 0), and actions with
\* equal last_used keep their registry order.
C11_ListingOrder ==
    (items # <<>> /\ ~Truthy(items.query) /\ Registry # <<>>) =>
        LET out == items.out
            key(j) == last_used_key(Registry[RegistryIndex(out[j])])
        IN  /\ \A i \in 1..Len(Registry) :
                  Cardinality({j \in 1..Len(out) : out[j].title = Registry[i].name}) = 1
            /\ Len(out) = Len(Registry)
            /\ \A j, k \in 1..Len(out) : j < k =>
                  \/ key(j) > key(k)
                  \/ key(j) = key(k) /\ RegistryIndex(out[j]) < RegistryIndex(out[k])

\* Three actions are listed, two of them with equal last_used behind one with
\* a greater last_used that is stored last
C11_Witness ==
    /\ items # <<>> /\ ~Truthy(items.query)
    /\ Len(Registry) = 3 /\ Len(items.out) = 3
    /\ "last_used" \notin DOMAIN Registry[1]
    /\ last_used_key(Registry[2]) = 0
    /\ last_used_key(Registry[3]) = 2
    /\ items.out[1].title = Registry[3].name

(***************************************************************************)
(* filter.py: the favicon cache (get_favicon_path, fetch_favicon).         *)
(* A call is modelled step by step: the cache test, the request for the    *)
(* root page, then one request per candidate.                              *)
(***************************************************************************)
\* The clock runs from day 0 to day MaxDays
MaxDays == 8

\* time.time() and file modification times are in seconds
DAY == 24 * 60 * 60
WEEK == 7 * 24 * 60 * 60

\* get_favicon_path(url): None without a host, else the file named after the
\* MD5 of the host (one file per host; distinct hosts get distinct files)
get_favicon_path(url) ==
    LET domain == urlparse(url).netloc
    IN  IF domain = <<>> THEN None ELSE Some(<<"favicons", domain, ".ico">>)

\* Mutant of cache_hit: the age of the file is not looked at
cache_hit_any_age(file, t) == file.some

\* The test of lines 439-441: the file exists and is less than a week old
cache_hit(file, t) == file.some /\ t - file.data.mtime < WEEK

\* urljoin(base_url, ref) for a base_url without a path
urljoin(base_url, ref) ==
    IF urlparse(ref).scheme # <<>> THEN ref
    ELSE IF StartsWith(ref, <<"/","/">>) THEN urlparse(base_url).scheme \o <<":">> \o ref
    ELSE IF StartsWith(ref, <<"/">>) THEN base_url \o ref
    ELSE base_url \o <<"/">> \o ref

\* f"{parsed.scheme}://{parsed.netloc}"
base_url_of(url) == urlparse(url).scheme \o <<":","/","/">> \o urlparse(url).netloc

P_favicon_ico == <<"/","f","a","v","i","c","o","n",".","i","c","o">>
P_favicon_png == <<"/","f","a","v","i","c","o","n",".","p","n","g">>
P_apple == <<"/","a","p","p","l","e","-","t","o","u","c","h","-","i","c","o","n",".","p","n","g">>
P_apple_pre == <<"/","a","p","p","l","e","-","t","o","u","c","h","-","i","c","o","n","-",
                 "p","r","e","c","o","m","p","o","s","e","d",".","p","n","g">>

\* The fixed list of lines 448-453
fallback_urls(base_url) ==
    << urljoin(base_url, P_favicon_ico), urljoin(base_url, P_favicon_png),
       urljoin(base_url, P_apple), urljoin(base_url, P_apple_pre) >>

\* Mutant of favicon_urls: discovered hrefs are appended behind the list
RECURSIVE favicon_urls_appended(_, _, _)
favicon_urls_appended(urls, base_url, tags) ==
    IF tags = <<>> THEN urls
    ELSE favicon_urls_appended(
            IF Head(tags).some THEN urls \o <<urljoin(base_url, Head(tags).data)>> ELSE urls,
            base_url, Tail(tags))

\* The loop of lines 465-470 over the icon link tags of the page, in page
\* order: a tag with an href puts its URL at index 0 of the list
RECURSIVE favicon_urls(_, _, _)
favicon_urls(urls, base_url, tags) ==
    IF tags = <<>> THEN urls
    ELSE favicon_urls(
            IF Head(tags).some THEN <<urljoin(base_url, Head(tags).data)>> \o urls ELSE urls,
            base_url, Tail(tags))

\* What a request for a candidate can come to:
\*   "error"    web.get or raise_for_status raises
\*   "type"     the content type is not accepted
\*   "empty"    the body has no bytes
\*   "partial"  iter_content raises after some bytes were written
\*   "ok"       the whole, non-empty body is written
CandidateOutcomes == {"error", "type", "empty", "partial", "ok"}

\* The cache file after the request for a candidate (lines 478-497)
file_after(file, candidate, outcome, t) ==
    CASE outcome \in {"error", "type"} -> file
      [] outcome = "empty" -> None
      [] outcome = "partial" -> Some([from |-> candidate, complete |-> FALSE, mtime |-> t])
      [] outcome = "ok" -> Some([from |-> candidate, complete |-> TRUE, mtime |-> t])

\* Lines 491-492: the call returns the path when the file exists with a
\* positive size after the whole body was written
candidate_returns(outcome) == outcome = "ok"

\* URLs of stored actions: two on one host, one without a host
U_root == SeedRegistry[1].url
U_page == normalize_url(<<"a",".","i","o","/","p">>)
U_nohost == normalize_url(<<"/","p">>)
IconUrls == {U_root, U_page, U_nohost}

\* hrefs of icon link tags
H_abs == <<"/","i">>
H_rel == <<"j">>
\* The icon link tags a root page can hold, in page order, each with its href
\* or without one
Pages == { <<>>, <<Some(H_abs)>>, <<Some(H_abs), Some(H_rel)>>, <<None, Some(H_rel)>> }

CachePaths == {get_favicon_path(u).data : u \in {v \in IconUrls : get_favicon_path(v).some}}

\* No call of fetch_favicon yet
NoCall ==
    [pc |-> "idle", url |-> <<>>, path |-> None, at |-> 0, before |-> None,
     tags |-> <<>>, todo |-> <<>>, log |-> <<>>, requests |-> <<>>, result |-> None]

InitIcons ==
    /\ cache = [p \in CachePaths |-> None]
    /\ fav = NoCall
    /\ clock = 0
    /\ store = None /\ now = 1 /\ net = NoEffects /\ items = <<>> /\ procs = <<>>
    /\ last = [cmd |-> "none", args |-> <<>>, rc |-> 0, saved |-> "none", http |-> "none"]

\* fetch_favicon(url) up to line 441
Call ==
    /\ fav.pc \in {"idle", "done"}
    /\ \E url \in IconUrls :
       \E path \in {get_favicon_path(url)} :
       \E file \in {IF path.some THEN cache[path.data] ELSE None} :
       \E call \in {[NoCall EXCEPT !.url = url, !.path = path, !.at = clock,
                                   !.before = file]} :
            fav' = IF ~path.some THEN [call EXCEPT !.pc = "done"]
                   ELSE IF cache_hit(file, clock)
                        THEN [call EXCEPT !.pc = "done", !.result = path]
                   ELSE [call EXCEPT !.pc = "page"]
    /\ UNCHANGED <<cache, clock, store, now, last, net, listVars, procVars>>

\* Lines 444-473: the request for the root page; found says whether it
\* succeeds, tags are the icon link tags of the page
GetPage ==
    /\ fav.pc = "page"
    /\ \E found \in BOOLEAN :
       \E tags \in (IF found THEN Pages ELSE {<<>>}) :
       \E base_url \in {base_url_of(fav.url)} :
            fav' = [fav EXCEPT !.pc = "try", !.tags = tags,
                               !.requests = @ \o <<base_url>>,
                               !.todo = favicon_urls(fallback_urls(base_url), base_url, tags)]
    /\ UNCHANGED <<cache, clock, store, now, last, net, listVars, procVars>>

\* Lines 475-497: the request for the next candidate
Try ==
    /\ fav.pc = "try" /\ fav.todo # <<>>
    /\ \E outcome \in CandidateOutcomes :
        LET candidate == Head(fav.todo)
        IN  /\ cache' = [cache EXCEPT ![fav.path.data] =
                            file_after(@, candidate, outcome, clock)]
            /\ fav' = [fav EXCEPT
                        !.requests = @ \o <<candidate>>,
                        !.log = @ \o << <<candidate, outcome = "ok">> >>,
                        !.todo = Tail(@),
                        !.pc = IF candidate_returns(outcome) THEN "done" ELSE "try",
                        !.result = IF candidate_returns(outcome) THEN fav.path ELSE None]
    /\ UNCHANGED <<clock, store, now, last, net, listVars, procVars>>

\* Line 502: no candidate is left
GiveUp ==
    /\ fav.pc = "try" /\ fav.todo = <<>>
    /\ fav' = [fav EXCEPT !.pc = "done", !.result = None]
    /\ UNCHANGED <<cache, clock, store, now, last, net, listVars, procVars>>

\* A day passes between two calls
Tick ==
    /\ fav.pc \in {"idle", "done"}
    /\ clock + DAY <= MaxDays * DAY
    /\ clock' = clock + DAY
    /\ UNCHANGED <<cache, fav, store, now, last, net, listVars, procVars>>

NextIcons == Call \/ GetPage \/ Try \/ GiveUp \/ Tick

SpecIcons == InitIcons /\ [][NextIcons]_vars

(***************************************************************************)
(* Properties of the favicon cache.                                        *)
(***************************************************************************)
\* The call of fetch_favicon has returned, for a URL with a host
Returned == fav.pc = "done" /\ fav.path.some

\* The cache file the call found was there and less than 7 days old
FoundFresh == fav.before.some /\ fav.at - fav.before.data.mtime < 7 * DAY

\* C12: a call that finds the cache file less than 7 days old returns the
\* cache path without any network request; a call that finds it absent or 7
\* or more days old has issued at least one request when it returns.
C12_CacheTtl ==
    Returned =>
        /\ FoundFresh => (fav.result = fav.path /\ fav.requests = <<>>)
        /\ ~FoundFresh => fav.requests # <<>>

\* A call returns a six days old file without a request
C12_Witness ==
    /\ Returned /\ fav.before.some
    /\ fav.at - fav.before.data.mtime = 6 * DAY
    /\ fav.result = fav.path /\ fav.requests = <<>>

\* A call that finds a file of exactly seven days issues requests
C12_WitnessStale ==
    /\ Returned /\ fav.before.some
    /\ fav.at - fav.before.data.mtime = 7 * DAY
    /\ fav.requests # <<>>

\* The call has returned after a cache miss
ReturnedOnMiss == Returned /\ fav.requests # <<>>

\* The URLs of the hrefs discovered in the root page, in page order
Discovered ==
    LET with == SelectSeq(fav.tags, LAMBDA t : t.some)
    IN  [i \in 1..Len(with) |-> urljoin(base_url_of(fav.url), with[i].data)]

ReverseOf(s) == [i \in 1..Len(s) |-> s[Len(s) + 1 - i]]

\* The four fixed candidates, in the order the claim gives them
Fallbacks ==
    [i \in 1..4 |-> base_url_of(fav.url) \o
        <<P_favicon_ico, P_favicon_png, P_apple, P_apple_pre>>[i]]

\* The returned call went through the candidates in the given order: it
\* requested a prefix of it, every requested candidate but the last did not
\* qualify, and it returned the path, written from the last requested
\* candidate, exactly when that one qualified; it returned none only after
\* the whole order was requested
TriedInOrder(order) ==
    LET n == Len(fav.log)
    IN  /\ n <= Len(order)
        /\ \A i \in 1..n : fav.log[i][1] = order[i]
        /\ \A i \in 1..(n - 1) : ~fav.log[i][2]
        /\ fav.result.some <=> (n > 0 /\ fav.log[n][2])
        /\ fav.result.some =>
              /\ fav.result = fav.path
              /\ cache[fav.path.data] =
                    Some([from |-> order[n], complete |-> TRUE, mtime |-> fav.at])
        /\ ~fav.result.some => n = Len(order)

\* C14 (as stated): on a cache miss the candidates are the discovered hrefs
\* in page order, then the four fixed paths; the call returns the path
\* written from the first candidate that qualifies and none when none does.
C14_PageOrder ==
    ReturnedOnMiss => TriedInOrder(Discovered \o Fallbacks)

\* C14 (amended): the discovered hrefs are tried last-in-page first, then the
\* four fixed paths; the call returns the path written from the first
\* candidate, in that order, that qualifies and none when none does.
C14_ReversePageOrder ==
    ReturnedOnMiss => TriedInOrder(ReverseOf(Discovered) \o Fallbacks)

\* Two hrefs were discovered; the href that is second in the page did not
\* qualify, the href that is first in the page did and was returned
C14_Witness ==
    /\ ReturnedOnMiss /\ Len(Discovered) = 2
    /\ Len(fav.log) = 2
    /\ fav.log[1] = <<Discovered[2], FALSE>>
    /\ fav.log[2] = <<Discovered[1], TRUE>>
    /\ fav.result = fav.path

\* C17: a returned cache path always names a file that holds a completely
\* downloaded icon.
C17_OnlyCompleteFiles ==
    (Returned /\ fav.result.some) =>
        /\ cache[fav.path.data].some
        /\ cache[fav.path.data].data.complete

(***************************************************************************)
(* command.py run by two processes at once.  A command is no longer one    *)
(* step: its load, its save and (for open) its request with the later      *)
(* get_mode are steps of their own, and the steps of the two processes     *)
(* interleave.  Nothing in the code locks the stored document.             *)
(***************************************************************************)
\* The two processes together start at most MaxRuns commands
MaxRuns == 3

Procs == {1, 2}

\* The commands the processes run
ProcCommands ==
    {<<"add", a>> : a \in {<<U_plain>>, <<U_plain, N_x>>}}
    \cup {<<"adh", a>> : a \in {<<N_x>> \o h : h \in HeaderArgs}}
    \cup {<<"adc", a>> : a \in {<<N_x>> \o CK_two}}
    \cup {<<"adb", a>> : a \in {<<N_x>> \o b : b \in BodyArgs}}
    \cup {<<"remove", a>> : a \in {<<N_x>>, <<N_a>>}}
    \cup {<<"mode", a>> : a \in {<<N_x, S_quiet>>, <<N_x, S_browser>>}}
    \cup {<<"open", a>> : a \in {<<N_x>>, <<N_a>>}}

\* main(): the handler of a mutating command, on the list it loaded
Handler(cmd, buttons, args) ==
    CASE cmd = "add" -> add_button(buttons, args)
      [] cmd = "adh" -> add_header(buttons, args)
      [] cmd = "adc" -> add_cookie(buttons, args)
      [] cmd = "adb" -> add_body(buttons, args)
      [] cmd = "remove" -> remove_button(buttons, args)
      [] cmd = "mode" -> set_mode(buttons, args)

\* A process that has not run a command
IdleProc ==
    [pc |-> "idle", cmd |-> "none", args |-> <<>>, loaded |-> <<>>, buttons |-> <<>>,
     rc |-> 0, saved |-> "none", snap |-> None, http |-> "none", eff |-> NoEffects,
     runs |-> 0]

\* procs.of[p] is process p; procs.writer is the process whose write was the
\* last to go through (0: no write yet)
InitProcs ==
    /\ store \in InitStores
    /\ now = 1
    /\ procs = [of |-> [p \in Procs |-> IdleProc], writer |-> 0]
    /\ last = [cmd |-> "none", args |-> <<>>, rc |-> 0, saved |-> "none", http |-> "none"]
    /\ net = NoEffects /\ items = <<>>
    /\ cache = <<>> /\ fav = <<>> /\ clock = 0

\* Process p starts a command and runs it up to its save_web_buttons call
\* (mutating commands) or up to its request (open)
Load(p) ==
    /\ procs.of[p].pc \in {"idle", "done"}
    /\ now <= MaxRuns
    /\ now' = now + 1
    /\ \E c \in ProcCommands :
        LET cmd == c[1]
            args == c[2]
            buttons == load_web_buttons(store)
            run == [IdleProc EXCEPT !.cmd = cmd, !.args = args, !.loaded = buttons,
                                    !.runs = procs.of[p].runs + 1]
            i == find_button(buttons, args[1])
            r == Handler(cmd, buttons, args)
        IN  procs' = [procs EXCEPT !.of[p] =
                IF cmd = "open"
                THEN IF i = 0 THEN [run EXCEPT !.pc = "done", !.rc = 1]
                     ELSE [run EXCEPT !.pc = "request", !.snap = Some(buttons[i])]
                ELSE IF r.save THEN [run EXCEPT !.pc = "save", !.buttons = r.buttons, !.rc = r.rc]
                     ELSE [run EXCEPT !.pc = "done", !.buttons = r.buttons, !.rc = r.rc]]
    /\ UNCHANGED <<store, last, net, listVars, iconVars>>

\* Process p's save_web_buttons call
Save(p) ==
    /\ procs.of[p].pc = "save"
    /\ \E writeOk \in BOOLEAN :
        /\ store' = save_web_buttons(store, procs.of[p].buttons, writeOk)
        /\ procs' = [procs EXCEPT
                        !.of[p].pc = "done",
                        !.of[p].saved = IF writeOk THEN "ok" ELSE "failed",
                        !.writer = IF writeOk THEN p ELSE @]
    /\ UNCHANGED <<now, last, net, listVars, iconVars>>

\* Process p's open_url call for the action it loaded: the request, then
\* get_mode on the document as it is stored by then
Request(p) ==
    /\ procs.of[p].pc = "request"
    /\ \E http \in HttpOutcomes :
        LET button == procs.of[p].snap.data
            eff == open_url(button.url, GetOpt(button, "headers"),
                            GetOpt(button, "cookies"), Some(procs.of[p].args[1]),
                            Get(button, "method", S_GET), GetOpt(button, "body"),
                            http, store)
        IN  procs' = [procs EXCEPT !.of[p].pc = "done", !.of[p].http = http,
                                   !.of[p].eff = eff,
                                   !.of[p].rc = IF eff.ok THEN 0 ELSE 1]
    /\ UNCHANGED <<store, now, last, net, listVars, iconVars>>

NextProcs == \E p \in Procs : Load(p) \/ Save(p) \/ Request(p)

SpecProcs == InitProcs /\ [][NextProcs]_vars

(***************************************************************************)
(* Properties of the two processes.                                        *)
(***************************************************************************)
\* Both processes have run one mutating command each and have finished
BothDone ==
    \A p \in Procs : /\ procs.of[p].pc = "done"
                     /\ procs.of[p].runs = 1
                     /\ procs.of[p].cmd # "open"

\* C13: when two processes have each run one mutating command, the stored
\* registry is the one computed by the process whose save came last (the
\* document is untouched when no save went through).
C13_LastWriterWins ==
    BothDone =>
        IF procs.writer = 0
        THEN \A p \in Procs : load_web_buttons(store) = procs.of[p].loaded
        ELSE store = Some(procs.of[procs.writer].buttons)

\* The lost update: both commands exited 0 with their writes gone through,
\* and the action the first writer added is not in the stored registry
C13_Witness ==
    /\ BothDone
    /\ \A p \in Procs : procs.of[p].rc = 0 /\ procs.of[p].saved = "ok"
    /\ \E p \in Procs :
        /\ procs.writer # p
        /\ procs.of[p].cmd = "add"
        /\ ~name_exists(load_web_buttons(store), AddName(procs.of[p].args))

\* C15: with interleaved loads and saves every stored registry still has
\* pairwise distinct names.
C15_UniqueUnderInterleaving ==
    \A i, j \in 1..Len(load_web_buttons(store)) :
        load_web_buttons(store)[i].name = load_web_buttons(store)[j].name => i = j

\* Both processes added the same name to lists that did not hold it, both
\* writes went through
C15_Witness ==
    \A p \in Procs :
        /\ procs.of[p].pc = "done" /\ procs.of[p].cmd = "add"
        /\ procs.of[p].args = <<U_plain>>
        /\ ~name_exists(procs.of[p].loaded, AddName(procs.of[p].args))
        /\ procs.of[p].rc = 0 /\ procs.of[p].saved = "ok"

\* C16: an open whose request succeeded launches the browser exactly when
\* the mode of the action it loaded (and sent) is browser.
C16_ModeOfSnapshot ==
    \A p \in Procs :
        (procs.of[p].pc = "done" /\ procs.of[p].cmd = "open" /\ procs.of[p].http = "ok")
            => ((procs.of[p].eff.opened # <<>>)
                    <=> (Get(procs.of[p].snap.data, "mode", S_browser) = S_browser))

=============================================================================
